---- MODULE Spec2Model ----
(***************************************************************************)
(* OccuMatch AI - NCO semantic search API (src/app.py).                    *)
(*                                                                         *)
(* The process holds three module globals (model, index, meta) that are    *)
(* filled lazily by load_artifacts_if_needed.  The endpoints are plain     *)
(* "def" handlers, which FastAPI runs on a pool of worker threads, so the  *)
(* statements of two /search requests interleave.  One action below is one *)
(* statement (or one straight run of thread-local statements) of src/app.py*)
(* between two accesses to shared state (the globals, the artifact files). *)
(***************************************************************************)
EXTENDS Integers, Sequences, FiniteSets, TLC

(* ----------------------------- bounds --------------------------------- *)
NumWorkers == 2      \* worker threads serving /search at the same time
MaxQLen == 1         \* longest query string drawn
MaxReads == 2        \* each artifact is read successfully at most this often
MaxK == 2            \* largest requested result count k
MaxScore == 1        \* largest raw similarity score returned by the index

(* ------------------------- program constants -------------------------- *)
None == [loaded |-> FALSE]

FAISS_PATH == "faiss.index"
META_PATH == "nco_meta.parquet"
MODEL_NAME_PATH == "model_name.txt"
\* the tuple of line 38 without the model identifier file
PathsShort == <<FAISS_PATH, META_PATH>>

\* the tuple iterated by the existence check, in the order of the source
Paths == <<FAISS_PATH, META_PATH, MODEL_NAME_PATH>>
Files == {FAISS_PATH, META_PATH, MODEL_NAME_PATH}

\* State of an artifact file on disk.  "corrupt" is a file that exists but
\* whose content cannot be used: an unreadable index or table, or a model
\* identifier the embedding provider does not know.
FileStates == {"ok", "missing", "corrupt"}

MetaRows == 2        \* rows of the metadata table in the artifact file
NTotal == 3          \* vectors of the similarity index in the artifact file

Workers == 1..NumWorkers
Whitespace == {" "}
Chars == {" ", "a"}
Queries == UNION {[1..n -> Chars] : n \in 0..MaxQLen}
\* the queries drawn for the search computation itself: long enough to have
\* whitespace before or after a word
SearchQueries == UNION {[1..n -> Chars] : n \in 0..(MaxQLen + 1)}

VARIABLES
    model,      \* global model: None or the embedding model handle
    index,      \* global index: None or the similarity index handle
    meta,       \* global meta: None or the metadata table handle
    fs,         \* the artifact directory: state of each of the three files
    pc,         \* per worker: the statement of search() it is about to run
    query,      \* per worker: req.query of the request it serves
    li,         \* per worker: position of the existence loop in Paths
    model_name, \* per worker: the local model_name read from the file
    reads,      \* history of the loader: successful reads of the table and
                \* of the index, instantiations of the model, and whether a
                \* call has returned at line 35 without loading
    out         \* the response sent by the last step, NoOut if it sent none

vars == <<model, index, meta, fs, pc, query, li, model_name, reads, out>>

NoOut == [kind |-> "none"]
NoName == "-"

(* ------------------------- pure helpers ------------------------------- *)
RECURSIVE LStrip(_)
LStrip(s) ==
    IF s = <<>> THEN s
    ELSE IF Head(s) \in Whitespace THEN LStrip(Tail(s)) ELSE s

RECURSIVE RStrip(_)
RStrip(s) ==
    IF s = <<>> THEN s
    ELSE IF s[Len(s)] \in Whitespace THEN RStrip(SubSeq(s, 1, Len(s) - 1)) ELSE s

\* line 62 with lstrip() for strip()
StripLeft(s) == LStrip(s)

\* str.strip()
Strip(s) == RStrip(LStrip(s))

\* line 34 with the last test turned round (meta is None)
AllLoadedTypo(m, i, t) == m # None /\ i # None /\ t = None

\* line 34 with "or" for "and": a partly loaded state counts as loaded
AllLoadedAny(m, i, t) == m # None \/ i # None \/ t # None

\* line 34: model is not None and index is not None and meta is not None
AllLoaded(m, i, t) == m # None /\ i # None /\ t # None

(* ------------------------------ Init ---------------------------------- *)
Init ==
    /\ model = None
    /\ index = None
    /\ meta = None
    /\ fs \in [Files -> FileStates]
    /\ pc = [p \in Workers |-> "idle"]
    /\ query = [p \in Workers |-> <<>>]
    /\ li = [p \in Workers |-> 0]
    /\ model_name = [p \in Workers |-> NoName]
    /\ reads = [meta |-> 0, index |-> 0, model |-> 0, skipped |-> FALSE]
    /\ out = NoOut

(* ------------------------ responses of /search ------------------------ *)
\* An exception that leaves search() is answered by the framework with
\* HTTP 500; error names what raised and arg the path or name it raised on.
ServerError(p, error, arg) ==
    [kind |-> "search", status |-> 500, error |-> error, arg |-> arg,
     query |-> query[p]]

\* line 64: HTTPException(status_code=400, detail="Empty query")
ClientError(p) ==
    [kind |-> "search", status |-> 400, error |-> "Empty query", arg |-> "",
     query |-> query[p]]

\* The handler returns or raises: the worker thread goes back to the pool
\* and the locals of the call are gone.
Return(p, response) ==
    /\ pc' = [pc EXCEPT ![p] = "idle"]
    /\ query' = [query EXCEPT ![p] = <<>>]
    /\ li' = [li EXCEPT ![p] = 0]
    /\ model_name' = [model_name EXCEPT ![p] = NoName]
    /\ out' = response

Goto(p, label) ==
    /\ pc' = [pc EXCEPT ![p] = label]
    /\ out' = NoOut

(* --------------------- load_artifacts_if_needed ----------------------- *)
\* A POST /search arrives and a worker thread enters search(req).
StartSearch(p, q) ==
    /\ pc[p] = "idle"
    /\ pc' = [pc EXCEPT ![p] = "check"]
    /\ query' = [query EXCEPT ![p] = q]
    /\ out' = NoOut
    /\ UNCHANGED <<model, index, meta, fs, li, model_name, reads>>

\* lines 34-35: return at once when all three globals are set
Check(p) ==
    /\ pc[p] = "check"
    /\ IF AllLoaded(model, index, meta)
       THEN /\ Goto(p, "validate")
            /\ reads' = [reads EXCEPT !.skipped = TRUE]
            /\ UNCHANGED li
       ELSE /\ Goto(p, "exists")
            /\ li' = [li EXCEPT ![p] = 1]
            /\ UNCHANGED reads
    /\ UNCHANGED <<model, index, meta, fs, query, model_name>>

\* lines 38-40: one iteration of the existence loop over Paths.  After the
\* last path the imports of lines 43-45 run; they touch no state of the
\* model and the packages are taken to be installed.
Exists(p) ==
    /\ pc[p] = "exists"
    /\ LET f == Paths[li[p]] IN
       IF fs[f] = "missing"
       THEN Return(p, ServerError(p, "Missing required artifact", f))
       ELSE IF li[p] = Len(Paths)
            THEN /\ Goto(p, "read_meta")
                 /\ li' = [li EXCEPT ![p] = 0]
                 /\ UNCHANGED <<query, model_name>>
            ELSE /\ Goto(p, "exists")
                 /\ li' = [li EXCEPT ![p] = li[p] + 1]
                 /\ UNCHANGED <<query, model_name>>
    /\ UNCHANGED <<model, index, meta, fs, reads>>

\* Every read builds a new object: id tells the objects apart.
\* the DataFrame pd.read_parquet returns for the table in the file
MetaHandle(id) == [loaded |-> TRUE, id |-> id, rows |-> MetaRows]
\* the index faiss.read_index returns for the file
IndexHandle(id) == [loaded |-> TRUE, id |-> id, ntotal |-> NTotal]
\* the model SentenceTransformer(name) returns
ModelHandle(id, name) == [loaded |-> TRUE, id |-> id, name |-> name]

\* line 47: meta = pd.read_parquet(META_PATH)
ReadMeta(p) ==
    /\ pc[p] = "read_meta"
    /\ reads.meta < MaxReads
    /\ IF fs[META_PATH] = "ok"
       THEN /\ meta' = MetaHandle(reads.meta + 1)
            /\ reads' = [reads EXCEPT !.meta = @ + 1]
            /\ Goto(p, "read_index")
            /\ UNCHANGED <<query, li, model_name>>
       ELSE /\ Return(p, ServerError(p, "read_parquet", META_PATH))
            /\ UNCHANGED <<meta, reads>>
    /\ UNCHANGED <<model, index, fs>>

\* line 48: index = faiss.read_index(FAISS_PATH)
ReadIndex(p) ==
    /\ pc[p] = "read_index"
    /\ reads.index < MaxReads
    /\ IF fs[FAISS_PATH] = "ok"
       THEN /\ index' = IndexHandle(reads.index + 1)
            /\ reads' = [reads EXCEPT !.index = @ + 1]
            /\ Goto(p, "read_name")
            /\ UNCHANGED <<query, li, model_name>>
       ELSE /\ Return(p, ServerError(p, "read_index", FAISS_PATH))
            /\ UNCHANGED <<index, reads>>
    /\ UNCHANGED <<model, meta, fs>>

\* the identifier a usable model_name.txt holds, and the content of one the
\* embedding provider does not know
KnownName == "known"
UnknownName == "unknown"

\* lines 49-50: model_name = f.read().strip()
ReadName(p) ==
    /\ pc[p] = "read_name"
    /\ IF fs[MODEL_NAME_PATH] = "missing"
       THEN Return(p, ServerError(p, "open", MODEL_NAME_PATH))
       ELSE /\ model_name' = [model_name EXCEPT ![p] =
                   IF fs[MODEL_NAME_PATH] = "ok" THEN KnownName ELSE UnknownName]
            /\ Goto(p, "inst")
            /\ UNCHANGED <<query, li>>
    /\ UNCHANGED <<model, index, meta, fs, reads>>

\* line 51: model = SentenceTransformer(model_name)
Instantiate(p) ==
    /\ pc[p] = "inst"
    /\ reads.model < MaxReads
    /\ IF model_name[p] = KnownName
       THEN /\ model' = ModelHandle(reads.model + 1, model_name[p])
            /\ reads' = [reads EXCEPT !.model = @ + 1]
            /\ Goto(p, "validate")
            /\ model_name' = [model_name EXCEPT ![p] = NoName]
            /\ UNCHANGED <<query, li>>
       ELSE /\ Return(p, ServerError(p, "SentenceTransformer", model_name[p]))
            /\ UNCHANGED <<model, reads>>
    /\ UNCHANGED <<index, meta, fs>>

(* ------------------------------ search -------------------------------- *)
\* line 75 without the test for a negative position
InRangeNoLower(ridx, metaLen) == ~(ridx >= metaLen)

\* line 75: ridx < 0 or ridx >= len(meta) skips the candidate
InRange(ridx, metaLen) == ~(ridx < 0 \/ ridx >= metaLen)

\* line 78: conf_pct = float(raw_scores[i] * 100.0)
ConfPct(score) == score * 100

\* line 79 with the comparison turned round
BelowMinInverted(conf_pct, min_confidence) == conf_pct > min_confidence

\* line 79: conf_pct < req.min_confidence skips the candidate
BelowMin(conf_pct, min_confidence) == conf_pct < min_confidence

\* lines 81-88: the result built from row ridx of the table; row stands for
\* the four columns of that row
Result(ridx, conf_pct) == [row |-> ridx, confidence |-> conf_pct]

\* results kept sorted by confidence, highest first
RECURSIVE InsertDesc(_, _)
InsertDesc(results, r) ==
    IF results = <<>> THEN <<r>>
    ELSE IF Head(results).confidence < r.confidence
         THEN <<r>> \o results
         ELSE <<Head(results)>> \o InsertDesc(Tail(results), r)

\* the loop of lines 73-89 re-sorting the results by confidence
RECURSIVE SearchLoopSorted(_, _, _, _, _, _)
SearchLoopSorted(idx, raw_scores, min_confidence, metaLen, i, results) ==
    IF i > Len(idx) THEN results
    ELSE IF ~InRange(idx[i], metaLen)
         THEN SearchLoopSorted(idx, raw_scores, min_confidence, metaLen, i + 1, results)
         ELSE IF BelowMin(ConfPct(raw_scores[i]), min_confidence)
              THEN SearchLoopSorted(idx, raw_scores, min_confidence, metaLen, i + 1, results)
              ELSE SearchLoopSorted(idx, raw_scores, min_confidence, metaLen, i + 1,
                      InsertDesc(results, Result(idx[i], ConfPct(raw_scores[i]))))

\* the loop of lines 73-89 with "break" for the "continue" of line 80
RECURSIVE SearchLoopShortCircuit(_, _, _, _, _, _)
SearchLoopShortCircuit(idx, raw_scores, min_confidence, metaLen, i, results) ==
    IF i > Len(idx) THEN results
    ELSE IF ~InRange(idx[i], metaLen)
         THEN SearchLoopShortCircuit(idx, raw_scores, min_confidence, metaLen, i + 1,
                                     results)
         ELSE IF BelowMin(ConfPct(raw_scores[i]), min_confidence)
              THEN results
              ELSE SearchLoopShortCircuit(idx, raw_scores, min_confidence, metaLen, i + 1,
                      Append(results, Result(idx[i], ConfPct(raw_scores[i]))))

\* lines 73-89: the loop over idx, from candidate i on, appending to results
RECURSIVE SearchLoop(_, _, _, _, _, _)
SearchLoop(idx, raw_scores, min_confidence, metaLen, i, results) ==
    IF i > Len(idx) THEN results
    ELSE IF ~InRange(idx[i], metaLen)
         THEN SearchLoop(idx, raw_scores, min_confidence, metaLen, i + 1, results)
         ELSE IF BelowMin(ConfPct(raw_scores[i]), min_confidence)
              THEN SearchLoop(idx, raw_scores, min_confidence, metaLen, i + 1, results)
              ELSE SearchLoop(idx, raw_scores, min_confidence, metaLen, i + 1,
                              Append(results, Result(idx[i], ConfPct(raw_scores[i]))))

\* line 91: {"query": q, "count": len(results), "results": results}
SearchBody(q, results) ==
    [query |-> q, count |-> Len(results), results |-> results]

\* lines 62-64: q = (req.query or "").strip(); 400 when q is empty
Validate(p) ==
    /\ pc[p] = "validate"
    /\ IF Strip(query[p]) = <<>>
       THEN Return(p, ClientError(p))
       ELSE /\ Goto(p, "encode")
            /\ UNCHANGED <<query, li, model_name>>
    /\ UNCHANGED <<model, index, meta, fs, reads>>

\* line 68: q_emb = model.encode([q], ...); on None the attribute lookup raises
Encode(p) ==
    /\ pc[p] = "encode"
    /\ IF model = None
       THEN Return(p, ServerError(p, "AttributeError", "encode"))
       ELSE /\ Goto(p, "lookup")
            /\ UNCHANGED <<query, li, model_name>>
    /\ UNCHANGED <<model, index, meta, fs, reads>>

\* Positions the index can return: -1 pads a short answer, and an index
\* that is not aligned with the table returns positions up to NTotal - 1.
Positions == -1..(NTotal - 1)
Scores == -1..MaxScore
MinConfidences == {0, 50, 100}

\* What line 69 can see: req.k, req.min_confidence (both read here for the
\* first time, so drawn here) and the answer of index.search, which has
\* one (score, position) pair for each of the k requested neighbours, in
\* any order of scores.  k is positive, as the Query of the data model.
Inputs(ks, scores, mins) ==
    UNION {[k : {k}, min_confidence : mins,
            idx : [1..k -> Positions], raw_scores : [1..k -> scores]] : k \in ks}

\* the inputs drawn when requests interleave with loads and file changes
ServiceInputs == Inputs({1}, {1}, {0})
\* the inputs drawn for the search computation itself
SearchInputs == Inputs(1..MaxK, Scores, MinConfidences)

\* lines 69-91: index.search, the loop over the candidates, the response;
\* inputs is the set the request's k and min_confidence and the index's
\* answer are drawn from
Lookup(p, inputs) ==
    /\ pc[p] = "lookup"
    /\ IF index = None
       THEN Return(p, ServerError(p, "AttributeError", "search"))
       ELSE IF meta = None
            THEN Return(p, ServerError(p, "TypeError", "len"))
            ELSE \E in \in inputs :
                 Return(p,
                   [kind |-> "search", status |-> 200, query |-> query[p],
                    k |-> in.k, min_confidence |-> in.min_confidence,
                    idx |-> in.idx, raw_scores |-> in.raw_scores,
                    metaLen |-> meta.rows,
                    body |-> SearchBody(Strip(query[p]),
                               SearchLoop(in.idx, in.raw_scores, in.min_confidence,
                                          meta.rows, 1, <<>>))])
    /\ UNCHANGED <<model, index, meta, fs, reads>>

(* --------------------------- other endpoints -------------------------- *)
\* The outcome of evaluating an expression inside the try block.
Raised == [raised |-> TRUE, value |-> 0]
Value(v) == [raised |-> FALSE, value |-> v]

\* line 153: index.ntotal; line 154: len(meta).  Both raise on None.
Ntotal(ix) == IF ix = None THEN Raised ELSE Value(ix.ntotal)
RowCount(t) == IF t = None THEN Raised ELSE Value(t.rows)

\* health() without the tests for None and without the try block: the
\* exception leaves the handler
HealthPayloadUnguarded(ix, t) ==
    LET cnt == Ntotal(ix)
        rows == RowCount(t)
    IN  IF cnt.raised \/ rows.raised
        THEN [kind |-> "health", status |-> "raised"]
        ELSE [kind |-> "health", status |-> "ok",
              index_vectors |-> cnt.value, meta_rows |-> rows.value]

\* lines 150-157: the payload of GET /health
HealthPayload(ix, t) ==
    LET cnt == IF ix # None THEN Ntotal(ix) ELSE Value(0)
        rows == IF t # None THEN RowCount(t) ELSE Value(0)
    IN  IF cnt.raised \/ rows.raised
        THEN [kind |-> "health", status |-> "error"]
        ELSE [kind |-> "health", status |-> "ok",
              index_vectors |-> cnt.value, meta_rows |-> rows.value]

\* GET /health reading the table itself when it is not loaded yet
HealthLoading ==
    /\ out' = HealthPayload(index, meta)
    /\ meta' = IF meta = None /\ fs[META_PATH] = "ok" THEN MetaHandle(0) ELSE meta
    /\ UNCHANGED <<model, index, fs, pc, query, li, model_name, reads>>

\* GET /health
Health ==
    /\ out' = HealthPayload(index, meta)
    /\ UNCHANGED <<model, index, meta, fs, pc, query, li, model_name, reads>>

\* lines 93-148: GET / returns the fixed page
Root ==
    /\ out' = [kind |-> "root", status |-> 200]
    /\ UNCHANGED <<model, index, meta, fs, pc, query, li, model_name, reads>>

\* The offline build (or an operator) replaces, removes or restores a file.
EnvChange(f, st) ==
    /\ fs[f] # st
    /\ fs' = [fs EXCEPT ![f] = st]
    /\ out' = NoOut
    /\ UNCHANGED <<model, index, meta, pc, query, li, model_name, reads>>

(* ------------------------- specifications ----------------------------- *)
Next ==
    \/ \E p \in Workers, q \in Queries : StartSearch(p, q)
    \/ \E p \in Workers : Check(p)
    \/ \E p \in Workers : Exists(p)
    \/ \E p \in Workers : ReadMeta(p)
    \/ \E p \in Workers : ReadIndex(p)
    \/ \E p \in Workers : ReadName(p)
    \/ \E p \in Workers : Instantiate(p)
    \/ \E p \in Workers : Validate(p)
    \/ \E p \in Workers : Encode(p)
    \/ \E p \in Workers : Lookup(p, ServiceInputs)
    \/ Health
    \/ Root
    \/ \E f \in Files, st \in FileStates : EnvChange(f, st)

Spec == Init /\ [][Next]_vars

\* The same program with one request in the process at a time: a request
\* is accepted only when every worker is idle.
StartSearchSeq(p, q) ==
    /\ \A w \in Workers : pc[w] = "idle"
    /\ StartSearch(p, q)

NextSeq ==
    \/ \E p \in Workers, q \in Queries : StartSearchSeq(p, q)
    \/ \E p \in Workers : Check(p)
    \/ \E p \in Workers : Exists(p)
    \/ \E p \in Workers : ReadMeta(p)
    \/ \E p \in Workers : ReadIndex(p)
    \/ \E p \in Workers : ReadName(p)
    \/ \E p \in Workers : Instantiate(p)
    \/ \E p \in Workers : Validate(p)
    \/ \E p \in Workers : Encode(p)
    \/ \E p \in Workers : Lookup(p, ServiceInputs)
    \/ Health
    \/ Root
    \/ \E f \in Files, st \in FileStates : EnvChange(f, st)

SpecSeq == Init /\ [][NextSeq]_vars

\* The search computation on the loaded state: the state a successful load
\* leaves, and requests, one at a time, drawing their inputs from
\* SearchInputs.
InitSearch ==
    /\ model = ModelHandle(1, KnownName)
    /\ index = IndexHandle(1)
    /\ meta = MetaHandle(1)
    /\ fs = [f \in Files |-> "ok"]
    /\ pc = [p \in Workers |-> "idle"]
    /\ query = [p \in Workers |-> <<>>]
    /\ li = [p \in Workers |-> 0]
    /\ model_name = [p \in Workers |-> NoName]
    /\ reads = [meta |-> 1, index |-> 1, model |-> 1, skipped |-> FALSE]
    /\ out = NoOut

NextSearch ==
    \/ \E p \in Workers, q \in SearchQueries : StartSearchSeq(p, q)
    \/ \E p \in Workers : Check(p)
    \/ \E p \in Workers : Validate(p)
    \/ \E p \in Workers : Encode(p)
    \/ \E p \in Workers : Lookup(p, SearchInputs)

SpecSearch == InitSearch /\ [][NextSearch]_vars

(* ============================== claims ================================ *)
LoadBody == {"exists", "read_meta", "read_index", "read_name", "inst"}
Ready == model # None /\ index # None /\ meta # None
AllIdle == \A p \in Workers : pc[p] = "idle"
SearchOut == out.kind = "search"
SearchOk == out.kind = "search" /\ out.status = 200

\* C1: two /search requests that run the loader concurrently from the
\* uninitialized state instantiate the model exactly once in the process:
\* the model is never instantiated a second time.
C1_LoadedExactlyOnce == reads.model <= 1

\* C2: with calls of the loader made in sequence, the model is instantiated
\* at most once, and from the moment the state is ready no step enters the
\* load (existence checks, reads, instantiation) or changes model, index,
\* meta or the count of reads: a later call is a no-op.
C2_SecondCallNoOp ==
    /\ [](reads.model <= 1)
    /\ [][Ready =>
            /\ model' = model /\ index' = index /\ meta' = meta
            /\ reads'.meta = reads.meta
            /\ reads'.index = reads.index
            /\ reads'.model = reads.model
            /\ \A p \in Workers : pc'[p] \notin LoadBody]_vars

\* a second call has passed the check of line 34 on the loaded state and
\* stands behind the loader, after exactly one set of reads
C2_Witness ==
    /\ Ready
    /\ reads = [meta |-> 1, index |-> 1, model |-> 1, skipped |-> TRUE]
    /\ \E p \in Workers : pc[p] = "validate"

\* C3: no failure of the load is cached.  A /search request is answered
\* with a server error only by a step of the load whose artifact is missing
\* or unusable at that step (or whose model identifier, as read by this
\* request, is unknown), and a request skips the load only when model,
\* index and meta are all set; so every request after a failure loads again
\* and succeeds when the artifacts are there.
C3_FailureNotCached ==
    /\ [](SearchOut /\ out.status = 500 =>
            \/ out.error = "Missing required artifact" /\ fs[out.arg] = "missing"
            \/ out.error = "read_parquet" /\ fs[META_PATH] # "ok"
            \/ out.error = "read_index" /\ fs[FAISS_PATH] # "ok"
            \/ out.error = "open" /\ fs[MODEL_NAME_PATH] = "missing"
            \/ out.error = "SentenceTransformer" /\ out.arg = UnknownName)
    /\ [][\A p \in Workers :
            pc[p] = "check" /\ pc'[p] # "check" =>
                IF model # None /\ index # None /\ meta # None
                THEN pc'[p] = "validate" ELSE pc'[p] = "exists"]_vars

\* a request is served after an earlier load failed behind the table read:
\* the table was read twice, the index and the model once
C3_Witness ==
    /\ SearchOk
    /\ AllIdle
    /\ reads.meta = 2 /\ reads.index = 1 /\ reads.model = 1

\* C4: a /search request whose query is empty or only whitespace is
\* answered with HTTP 400 "Empty query", whatever the loader's state.
C4_EmptyQueryIs400 ==
    SearchOut /\ Strip(out.query) = <<>> =>
        out.status = 400 /\ out.error = "Empty query"

\* C5: the response of search has count equal to the number of results,
\* and every result has confidence (score * 100) >= min_confidence.
C5_CountAndThreshold ==
    SearchOk =>
        /\ out.body.count = Len(out.body.results)
        /\ \A j \in 1..Len(out.body.results) :
              /\ out.body.results[j].confidence >= out.min_confidence
              /\ \E i \in 1..out.k :
                    out.body.results[j].confidence = out.raw_scores[i] * 100

\* min_confidence = 100: a candidate was dropped and an exact match emitted
C5_Witness ==
    /\ SearchOk
    /\ out.min_confidence = 100
    /\ out.body.count = 1
    /\ out.k = 2
    /\ out.body.results[1].confidence = 100

\* the candidates of a response, in the order the index returned them
Candidates(o) ==
    [i \in 1..o.k |-> [row |-> o.idx[i], confidence |-> o.raw_scores[i] * 100]]

RECURSIVE IsSubseq(_, _)
IsSubseq(r, c) ==
    IF r = <<>> THEN TRUE
    ELSE IF c = <<>> THEN FALSE
    ELSE IF Head(r) = Head(c) THEN IsSubseq(Tail(r), Tail(c))
    ELSE IsSubseq(r, Tail(c))

\* C6: the results are a subsequence of the candidates the index returned,
\* in the same relative order, also when the scores do not descend.
C6_OrderPreserved ==
    SearchOk => IsSubseq(out.body.results, Candidates(out))

\* two results whose confidences ascend
C6_Witness ==
    /\ SearchOk
    /\ out.body.count = 2
    /\ out.body.results[1].confidence < out.body.results[2].confidence

OutOfRange(o, i) == o.idx[i] < 0 \/ o.idx[i] >= o.metaLen

\* C7: a position that is negative or >= the row count is dropped without
\* an error: the request is answered (never with a server error), no result
\* comes from such a position, and an in-range candidate at or above the
\* threshold that follows one is emitted.
C7_OutOfRangeDropped ==
    SearchOut =>
        /\ out.status # 500
        /\ out.status = 200 =>
             /\ \A j \in 1..Len(out.body.results) :
                   out.body.results[j].row \in 0..(out.metaLen - 1)
             /\ \A i \in 1..out.k :
                   (/\ \E h \in 1..(i - 1) : OutOfRange(out, h)
                    /\ ~OutOfRange(out, i)
                    /\ out.raw_scores[i] * 100 >= out.min_confidence)
                   => \E j \in 1..Len(out.body.results) :
                         out.body.results[j] = Candidates(out)[i]

\* a position past the end of the table, followed by an emitted result
C7_Witness ==
    /\ SearchOk
    /\ out.k = 2
    /\ out.idx[1] >= out.metaLen
    /\ out.body.count = 1
    /\ out.body.results[1].row = out.idx[2]

\* C8: GET /health never raises: in every state of the process its payload
\* has status "ok" or "error".
C8_HealthNeverRaises ==
    out.kind = "health" => out.status \in {"ok", "error"}

\* /health answered while a load is in progress and the state is partly set
C8_Witness ==
    /\ out.kind = "health"
    /\ meta # None /\ index = None
    /\ \E p \in Workers : pc[p] = "read_index"

\* C9: once model, index and meta are all set, no later step of any request
\* writes model, index or meta again.
C9_ReadyIsImmutable ==
    [][Ready => model' = model /\ index' = index /\ meta' = meta]_vars

C10_Kept(c) ==
    /\ c.row >= 0 /\ c.row < out.metaLen
    /\ ~(c.confidence < out.min_confidence)

\* C10: search emits exactly the candidates whose position is in range and
\* whose score * 100 is not strictly below min_confidence, in order; a
\* candidate below the threshold does not stop the ones after it.
C10_PerCandidateFilter ==
    SearchOk => out.body.results = SelectSeq(Candidates(out), C10_Kept)

\* a candidate below the threshold, then one equal to it that is emitted
C10_Witness ==
    /\ SearchOk
    /\ out.k = 2
    /\ ~OutOfRange(out, 1)
    /\ out.raw_scores[1] * 100 < out.min_confidence
    /\ out.raw_scores[2] * 100 = out.min_confidence
    /\ out.body.results = <<Candidates(out)[2]>>

Globals == <<model, index, meta>>
Moved(p) == pc'[p] # pc[p] \/ li'[p] # li[p]

\* the path line 38 visits in iteration i
C11_Path(i) ==
    IF i = 1 THEN "faiss.index"
    ELSE IF i = 2 THEN "nco_meta.parquet" ELSE "model_name.txt"

\* C11: the loader visits the index file, the table file and the model
\* identifier file in turn before it reads anything; at the first one that
\* is absent it fails with the missing-artifact error naming that path, and
\* that step leaves model, index and meta (and the count of reads) as they
\* were, so a load started on the uninitialized state leaves all three unset.
C11_MissingArtifact ==
    /\ [](\A p \in Workers : pc[p] = "exists" => li[p] \in 1..3)
    /\ [][\A p \in Workers :
            pc[p] = "exists" /\ Moved(p) =>
                IF fs[C11_Path(li[p])] = "missing"
                THEN /\ pc'[p] = "idle"
                     /\ out'.kind = "search" /\ out'.status = 500
                     /\ out'.error = "Missing required artifact"
                     /\ out'.arg = C11_Path(li[p])
                     /\ Globals' = Globals
                     /\ reads' = reads
                ELSE /\ out'.kind = "none"
                     /\ Globals' = Globals
                     /\ reads' = reads
                     /\ IF li[p] = 3
                        THEN pc'[p] = "read_meta"
                        ELSE pc'[p] = "exists" /\ li'[p] = li[p] + 1]_vars

\* a load on the uninitialized state has failed on the last path visited,
\* the model identifier file, and nothing is set or read
C11_Witness ==
    /\ out.kind = "search" /\ out.status = 500
    /\ out.error = "Missing required artifact"
    /\ out.arg = "model_name.txt"
    /\ model = None /\ index = None /\ meta = None
    /\ reads.meta = 0 /\ reads.index = 0

\* C12: a /health payload with status "ok" reports a consistent state:
\* both counts are 0, or both are the counts of the loaded index and table.
C12_HealthConsistent ==
    out.kind = "health" /\ out.status = "ok" =>
        \/ out.index_vectors = 0 /\ out.meta_rows = 0
        \/ out.index_vectors = NTotal /\ out.meta_rows = MetaRows

\* a query that is empty or holds only whitespace
Blank(q) == \A i \in 1..Len(q) : q[i] \in Whitespace

\* C13: a /search request with an empty query triggers no load and
\* performs no search: no step of the request changes model, index or meta,
\* and none reaches the embedding or the index lookup.
C13_EmptyQueryNoLoad ==
    [][\A p \in Workers :
          pc[p] # "idle" /\ Blank(query[p]) /\ Moved(p) =>
              /\ Globals' = Globals
              /\ pc'[p] \notin {"encode", "lookup"}]_vars

\* The half of C13 that the code keeps: a request with an empty query never
\* reaches the embedding or the index lookup, is never answered with
\* results, and once it is past the loader of line 60 no step of it changes
\* model, index or meta.
EmptyQueryNoSearch ==
    /\ [](\A p \in Workers :
            pc[p] \in {"encode", "lookup"} => ~Blank(query[p]))
    /\ [](SearchOut /\ Blank(out.query) => out.status # 200)
    /\ [][\A p \in Workers :
            pc[p] = "validate" /\ Blank(query[p]) /\ Moved(p) =>
                /\ Globals' = Globals
                /\ pc'[p] = "idle"
                /\ out'.kind = "search" /\ out'.status = 400]_vars

\* t is q without the whitespace at its two ends
Trimmed(q, t) ==
    /\ t # <<>> => t[1] \notin Whitespace /\ t[Len(t)] \notin Whitespace
    /\ \E a \in 0..Len(q) :
          /\ a + Len(t) <= Len(q)
          /\ \A i \in 1..a : q[i] \in Whitespace
          /\ \A i \in 1..Len(t) : q[a + i] = t[i]
          /\ \A i \in (a + Len(t) + 1)..Len(q) : q[i] \in Whitespace

\* C14: for a search with requested count k, to which the index returns k
\* candidates, the response's count is at most k and its query field is
\* the request's query with the surrounding whitespace trimmed.
C14_CountAndQuery ==
    SearchOk =>
        /\ Len(out.idx) = out.k
        /\ out.body.count <= out.k
        /\ Trimmed(out.query, out.body.query)

\* a query with whitespace after the word, answered with all k candidates
C14_Witness ==
    /\ SearchOk
    /\ out.query = <<"a", " ">>
    /\ out.body.query = <<"a">>
    /\ out.k = 2
    /\ out.body.count = 2

\* C15: the embedding (line 68) and the index lookup (line 69) execute only
\* in states where model, index and meta are all set, after failed loads
\* that left the state partly assigned and in any interleaving of loads,
\* and a handle once assigned is never reset to unset.
C15_SearchOnlyWhenLoaded ==
    /\ [](\A p \in Workers : pc[p] \in {"encode", "lookup"} =>
              model # None /\ index # None /\ meta # None)
    /\ [][/\ model # None => model' # None
          /\ index # None => index' # None
          /\ meta # None => meta' # None]_vars

\* a request is at the embedding step while another request is still inside
\* the loader, after an earlier load had failed with meta already assigned
C15_Witness ==
    /\ \E p, r \in Workers :
          /\ pc[p] = "encode"
          /\ pc[r] \in {"read_index", "inst"}
    /\ reads.meta = MaxReads
    /\ reads.index = 1

\* C16: GET /health and GET / leave model, index and meta as they were, and
\* the three change only in a step of a /search request inside the loader,
\* so only /search moves the process out of the uninitialized state.
C16_HealthRootFrame ==
    [][/\ out'.kind \in {"health", "root"} => Globals' = Globals
       /\ Globals' # Globals =>
             \E p \in Workers :
                 /\ pc[p] \in {"read_meta", "read_index", "inst"}
                 /\ Moved(p)]_vars

\* /health answered in the uninitialized state, which is still uninitialized
C16_Witness ==
    /\ out.kind = "health"
    /\ out.status = "ok"
    /\ model = None /\ index = None /\ meta = None
    /\ AllIdle

====
